---------------------------- MODULE Spec2Model ----------------------------
(***************************************************************************)
(* Model of the swaram backend: the DetectionProcessor windowing and       *)
(* prediction logic and the WebSocketServer message handlers of            *)
(* websocket_server.py, and the DetectionServer handlers of                *)
(* detection_server.py.                                                    *)
(*                                                                         *)
(* Time is the wall clock of time.time() in whole seconds.  Confidences    *)
(* are percentages (0.85 is 85).  A frame is opaque to the control flow    *)
(* of the code (only buffer lengths are tested), so a buffer entry is      *)
(* identified by the serial number of the append that stored it.           *)
(***************************************************************************)
EXTENDS Integers, Sequences, FiniteSets, TLC

VARIABLES
    server,                 \* the program that runs: "ws" websocket_server.py,
                            \* "ds" detection_server.py, "dp" a DetectionProcessor alone
    now,                    \* time.time()
    sign_frame_buffer,      \* DetectionProcessor.sign_frame_buffer
    lip_frame_buffer,       \* DetectionProcessor.lip_frame_buffer
    last_prediction_time,   \* DetectionProcessor.last_prediction_time
    sign_model,             \* DetectionProcessor.sign_model: "none", "bilstm", "cnn3d"
    lip_model,              \* DetectionProcessor.lip_model is loaded
    sign_pushes,            \* history: appends made to sign_frame_buffer
    lip_pushes,             \* history: appends made to lip_frame_buffer
    connections,            \* WebSocketServer.connections
    received,               \* the message the last handler was given
    ret,                    \* (detection_data, prediction) of the last frame handled
    sent,                   \* messages the last handler wrote, and to whom
    ds_connections,         \* DetectionServer.connections
    frame_counter,          \* DetectionServer.frame_counter
    start_time,             \* DetectionServer.start_time
    jobs,                   \* frames handed to DetectionProcessor.executor whose
                            \* handler has not resumed yet
    arrivals,               \* history: frames handed to the executor so far
    closed,                 \* connections the peer closed, handler still awaiting
    sign_from,              \* history: the connection each sign_frame_buffer entry came from
    lip_from,               \* history: the connection each lip_frame_buffer entry came from
    threads,                \* the pool threads inside process_frame_and_predict
    calls,                  \* history: calls of process_frame_and_predict begun on the pool
    predicted_at,           \* history: the times at which predictions were produced
    frame_buffer,           \* RealTimeProcessor.frame_buffer
    processing_queue,       \* RealTimeProcessor.processing_queue: batches waiting
    results_queue,          \* RealTimeProcessor.results_queue
    is_processing,          \* RealTimeProcessor.is_processing
    requests,               \* the threads of the Flask server inside process_frame
    workers,                \* the process_worker threads that run
    rt_frames,              \* history: frames given to add_frame so far
    enqueued,               \* history: the batches put on processing_queue
    resulted,               \* history: the batches whose result was put on results_queue
    started,                \* history: process_worker threads started so far
    broadcasting,           \* WebSocketServer.broadcast: where its loop stands
    health_check,           \* the health_check task: "running", or the exception
                            \* that ended it
    latency_history,        \* PerformanceOptimizer.latency_history, in milliseconds
    frame_rate,             \* PerformanceOptimizer.frame_rate
    quality_level,          \* PerformanceOptimizer.quality_level
    is_adjusting,           \* PerformanceOptimizer.is_adjusting
    updates,                \* history: calls of update_latency so far
    switches                \* history: times the latency reported changed

dpvars == <<sign_frame_buffer, lip_frame_buffer, last_prediction_time,
            sign_model, lip_model, sign_pushes, lip_pushes>>
wsvars == <<connections, ret>>
dsvars == <<ds_connections, frame_counter, start_time>>
poolvars == <<jobs, arrivals, closed>>
fromvars == <<sign_from, lip_from>>
racevars == <<threads, calls, predicted_at>>
rtvars == <<frame_buffer, processing_queue, results_queue, is_processing,
            requests, workers, rt_frames, enqueued, resulted, started>>
bcvars == <<broadcasting, health_check>>
optvars == <<latency_history, frame_rate, quality_level, is_adjusting,
             updates, switches>>
extvars == <<racevars, rtvars, bcvars, optvars>>
mainvars == <<server, now, dpvars, wsvars, received, sent, dsvars, poolvars, fromvars>>
besideRace == <<rtvars, bcvars, optvars>>
besideRT == <<racevars, bcvars, optvars>>
besideBroadcast == <<racevars, rtvars, optvars>>
besideOptimizer == <<racevars, rtvars, bcvars>>
vars == <<server, now, dpvars, wsvars, received, sent, dsvars, poolvars, fromvars,
          extvars>>

---------------------------------------------------------------------------
(* Program constants *)

W == 30
FrameBufferSize == 30
TargetLatency == 100
HistorySize == 100
MinSamples == 10
ProcessingQueueSize == 100
MinFrames == 10
PredictionInterval == 1
MaxFrameSize == 1048576

(* Bounds of the model *)

MaxTicks == 2
MaxPushes == 31
MaxFrames == 2
MaxSessionFrames == 11
MaxCounter == 3
MaxPoolFrames == 2
MaxRaceCalls == 11
MaxRTFrames == 32
MaxUpdates == 104
MaxSwitches == 1

Conns == {1}
Modes == {"sign", "lip", "both", "other"}
Labels == {"A", "B"}

---------------------------------------------------------------------------
(* Frame payloads.  A payload is the text of data['frame'], written as a   *)
(* sequence of tokens:                                                     *)
(*   "P"  the data-URL prefix  data:image/jpeg;base64  (22 characters, 20  *)
(*        of them in the base64 alphabet)                                  *)
(*   ","  a comma, "!" another character outside the base64 alphabet       *)
(*   "I"  base64 quads that encode a small image file                      *)
(*   "H"  base64 quads that encode an image file, more than 1 MiB of text  *)
(*   "Z"  base64 quads that encode bytes that are no image                 *)
(*   "t"  one stray character of the base64 alphabet                       *)

TokLen(t) ==
    CASE t = "P" -> 22
      [] t = "H" -> MaxFrameSize + 4
      [] t \in {"I", "Z"} -> 4
      [] OTHER -> 1

RECURSIVE StrLen(_)
StrLen(s) == IF s = <<>> THEN 0 ELSE TokLen(Head(s)) + StrLen(Tail(s))

Payloads ==
    { <<>>,                     \* '' (or the key absent)
      <<"I">>,                  \* a base64 JPEG
      <<"P", ",", "I">>,        \* the same as a data URL
      <<"I", "!">>,             \* a base64 JPEG and a character outside the alphabet
      <<"Z">>,                  \* base64 of bytes that are no image
      <<"I", "t">>,             \* a length that is no multiple of 4
      <<"!">>,                  \* nothing of the alphabet
      <<"P">>,                  \* a data-URL prefix without its comma
      <<"H">>,                  \* a base64 JPEG longer than 1 MiB
      <<"H", "t">> }            \* longer than 1 MiB and undecodable

InAlphabet(t) == t \in {"P", "I", "H", "Z", "t"}

\* str.startswith('data:image')
StartsWithDataImage(s) == s # <<>> /\ Head(s) = "P"

RECURSIVE SplitComma(_)
\* str.split(','): the pieces between the commas
SplitComma(s) ==
    IF \A i \in 1..Len(s) : s[i] # ","
    THEN <<s>>
    ELSE LET k == CHOOSE i \in 1..Len(s) :
                      s[i] = "," /\ \A j \in 1..(i - 1) : s[j] # ","
         IN <<SubSeq(s, 1, k - 1)>> \o SplitComma(SubSeq(s, k + 1, Len(s)))

\* The number of characters of the base64 alphabet in s, modulo 4.
AlphabetRem(s) ==
    LET stray == Cardinality({i \in 1..Len(s) : s[i] = "t"})
    IN stray % 4

\* base64.b64decode(s) with validate=False: the characters outside the
\* alphabet are discarded, then the rest must come in groups of four.
\* binascii.Error is raised otherwise.
B64Decode(s) ==
    IF AlphabetRem(s) # 0
    THEN [ok |-> FALSE, bytes |-> <<>>]
    ELSE [ok |-> TRUE, bytes |-> SelectSeq(s, InAlphabet)]

\* The result of cv2.imdecode taken for an image without the test for None.
ImDecodeOkUnchecked(blocks) == TRUE

\* cv2.imdecode(np.frombuffer(bytes)): an image only when the bytes start
\* with an image file.
ImDecodeOk(blocks) == blocks # <<>> /\ Head(blocks) \in {"I", "H"}

\* RFC 4648 base64: only characters of the alphabet, in groups of four.
StrictBase64(s) == (\A i \in 1..Len(s) : InAlphabet(s[i]) /\ s[i] # "P")
                   /\ AlphabetRem(s) = 0

---------------------------------------------------------------------------
(* DetectionProcessor *)

NoPrediction == [text |-> "", confidence |-> 0, type |-> "none"]

Pred(text, confidence, type) ==
    [text |-> text, confidence |-> confidence, type |-> type]

\* What the opaque classifier answers: np.argmax of the softmax output (a
\* class of the label list, or "oob", an index beyond it) and its value.
ConfLevels == {30, 60, 90}
Classes == Labels \cup {"oob"}

\* deque(maxlen=30).append(e)
\* deque.append on a deque made without maxlen: nothing is evicted.
DequeAppendNoEvict(buf, e) == Append(buf, e)

DequeAppend(buf, e) ==
    IF Len(buf) >= W THEN Append(Tail(buf), e) ELSE Append(buf, e)

\* extract_detection_data(frame, mode): what MediaPipe may report.  Hands
\* are looked for in modes sign and both, the face in modes lip and both.
Detections(mode) ==
    { [handCount |-> h, lipDetected |-> l] :
        h \in (IF mode \in {"sign", "both"} THEN 0..2 ELSE {0}),
        l \in (IF mode \in {"lip", "both"} THEN BOOLEAN ELSE {FALSE}) }

\* predict_with_3dcnn(frame_sequence): the possible results.  Fewer than 30
\* frames are padded to 30 and classified all the same.
PredictWith3DCNN(n) ==
    { IF conf > 50 /\ c # "oob"
      THEN Pred(c, conf, "sign")
      ELSE Pred("unclear_sign", conf, "sign") : c \in Classes, conf \in ConfLevels }
    \cup { Pred("cnn_failed", 10, "sign") }

\* predict_with_bilstm(frame_sequence): the possible results.
PredictWithBiLSTM(n) ==
    (IF n < W
     THEN { Pred("keypoints_unavailable", 10, "sign") }
     ELSE { IF conf > 50
            THEN Pred(IF c # "oob" THEN c ELSE "Unknown", conf, "sign")
            ELSE Pred("unclear_sign", conf, "sign") : c \in Classes, conf \in ConfLevels })
    \cup { Pred("bilstm_failed", 10, "sign") }

\* A predict_sign_language that returns None when no model is loaded.
PredictSignLanguageNeedsModel(n, model) ==
    IF n < MinFrames
    THEN { Pred("keypoints_unavailable", 10, "sign") }
    ELSE IF model = "cnn3d" THEN PredictWith3DCNN(n)
    ELSE IF model = "bilstm" THEN PredictWithBiLSTM(n)
    ELSE { NoPrediction }

\* predict_sign_language(frame_sequence), n = len(frame_sequence)
PredictSignLanguage(n, model) ==
    IF n < MinFrames
    THEN { Pred("keypoints_unavailable", 10, "sign") }
    ELSE IF model = "cnn3d" THEN PredictWith3DCNN(n)
    ELSE IF model = "bilstm" THEN PredictWithBiLSTM(n)
    ELSE { Pred("model_unavailable", 10, "sign") }

\* predict_lip_reading(landmark_sequence), n = len(landmark_sequence)
PredictLipReading(n, model) ==
    IF ~model \/ n < MinFrames
    THEN { Pred("lip_unavailable", 50, "lip") }
    ELSE { IF conf > 70
           THEN Pred(IF c # "oob" THEN c ELSE "Unknown", conf, "lip")
           ELSE Pred("unclear_lip", conf, "lip") : c \in Classes, conf \in ConfLevels }
         \cup { Pred("lip_unavailable", 10, "lip") }

\* The guard without the test of the buffer length.
PredictionDueAnyLength(buf, current_time, last) ==
    current_time - last >= PredictionInterval

\* The guard without the test of the time since the last prediction.
PredictionDueNoInterval(buf, current_time, last) ==
    Len(buf) >= MinFrames

\* The guard of both prediction branches of process_frame_and_predict.
PredictionDue(buf, current_time, last) ==
    Len(buf) >= MinFrames /\ current_time - last >= PredictionInterval

\* The sign branch entered for every frame of the mode, hand or no hand.
SignAppendsEveryFrame(mode, det) == mode \in {"sign", "both"}

\* Whether process_frame_and_predict appends the frame to the sign buffer.
SignAppends(mode, det) == mode \in {"sign", "both"} /\ det.handCount > 0

\* Whether process_frame_and_predict appends the landmarks to the lip buffer.
LipAppends(mode, det) == mode \in {"lip", "both"} /\ det.lipDetected

\* The assignment forgotten: last_prediction_time keeps its value.
LastPredictionTimeKept(predicted, current_time, last) == last

\* process_frame_and_predict: last_prediction_time after a branch, which
\* sets it to current_time when it predicted.
LastPredictionTime(predicted, current_time, last) ==
    IF predicted THEN current_time ELSE last

NoRet == [detection |-> [handCount |-> 0, lipDetected |-> FALSE],
          prediction |-> NoPrediction]

\* process_frame_and_predict(frame, mode), with det what
\* extract_detection_data returned; ret' is what the call returns.
ProcessFrameAndPredict(mode, det) ==
    LET current_time == now
        sbuf == IF SignAppends(mode, det)
                THEN DequeAppend(sign_frame_buffer, sign_pushes + 1)
                ELSE sign_frame_buffer
        sdue == SignAppends(mode, det)
                /\ PredictionDue(sbuf, current_time, last_prediction_time)
        last1 == LastPredictionTime(sdue, current_time, last_prediction_time)
        lbuf == IF LipAppends(mode, det)
                THEN DequeAppend(lip_frame_buffer, lip_pushes + 1)
                ELSE lip_frame_buffer
        ldue == LipAppends(mode, det) /\ PredictionDue(lbuf, current_time, last1)
    IN /\ sign_frame_buffer' = sbuf
       /\ lip_frame_buffer' = lbuf
       /\ sign_pushes' = IF SignAppends(mode, det) THEN sign_pushes + 1 ELSE sign_pushes
       /\ lip_pushes' = IF LipAppends(mode, det) THEN lip_pushes + 1 ELSE lip_pushes
       /\ last_prediction_time' = LastPredictionTime(ldue, current_time, last1)
       /\ \E sp \in (IF sdue THEN PredictSignLanguage(Len(sbuf), sign_model)
                             ELSE {NoPrediction}) :
          \E lp \in (IF ldue THEN PredictLipReading(Len(lbuf), lip_model)
                             ELSE {NoPrediction}) :
             ret' = [detection |-> det,
                     prediction |-> IF lp # NoPrediction THEN lp ELSE sp]
       /\ UNCHANGED <<sign_model, lip_model>>

\* The clock advances.
Tick ==
    /\ now < PredictionInterval + MaxTicks
    /\ now' = now + 1
    /\ UNCHANGED <<extvars, poolvars, fromvars, server, dpvars, wsvars, received, sent, dsvars>>

\* The connections the entries of a window came from, after a call made
\* for connection c (0 for a caller that is no connection): the deque holds
\* one more entry when the count of appends went from before to after.
FromAppend(from, c, before, after) ==
    IF after > before THEN DequeAppend(from, c) ELSE from

\* A call of process_frame_and_predict made for connection c.
CalledFor(c) ==
    /\ sign_from' = FromAppend(sign_from, c, sign_pushes, sign_pushes')
    /\ lip_from' = FromAppend(lip_from, c, lip_pushes, lip_pushes')

\* A caller runs process_frame_and_predict(frame, mode).
Call(mode) ==
    /\ mode \in {"sign", "lip", "both"}
    /\ sign_pushes + lip_pushes < MaxPushes
    /\ \E det \in Detections(mode) : ProcessFrameAndPredict(mode, det)
    /\ CalledFor(0)
    /\ UNCHANGED <<extvars, poolvars, server, now, connections, received, sent, dsvars>>

---------------------------------------------------------------------------
(* DetectionProcessor.executor: process_frame_and_predict on pool threads *)

\* The threads of ThreadPoolExecutor(max_workers=4) that are looked at.
RaceThreads == {1, 2}

IdleThread == [pc |-> "idle", mode |-> "", det |-> NoRet.detection,
               current_time |-> 0, sign |-> NoPrediction, lip |-> NoPrediction]

\* Thread t starts process_frame_and_predict(frame, mode): it has det from
\* extract_detection_data and reads the clock into current_time.
Begin(t, mode, det) ==
    /\ threads[t].pc = "idle"
    /\ threads' = [threads EXCEPT ![t] =
                      [pc |-> "sign", mode |-> mode, det |-> det,
                       current_time |-> now,
                       sign |-> NoPrediction, lip |-> NoPrediction]]
    /\ calls' = calls + 1
    /\ UNCHANGED <<besideRace, predicted_at, poolvars, fromvars, server, now, dpvars, wsvars,
                   received, sent, dsvars>>

\* self.sign_frame_buffer.append(frame.copy()), when the sign branch is taken
SignAppend(t) ==
    /\ threads[t].pc = "sign"
    /\ IF SignAppends(threads[t].mode, threads[t].det)
       THEN /\ sign_frame_buffer' = DequeAppend(sign_frame_buffer, sign_pushes + 1)
            /\ sign_pushes' = sign_pushes + 1
            /\ threads' = [threads EXCEPT ![t].pc = "sign_guard"]
       ELSE /\ UNCHANGED <<sign_frame_buffer, sign_pushes>>
            /\ threads' = [threads EXCEPT ![t].pc = "lip"]
    /\ UNCHANGED <<besideRace, calls, predicted_at, lip_frame_buffer, lip_pushes,
                   last_prediction_time, sign_model, lip_model,
                   poolvars, fromvars, server, now, wsvars, received, sent, dsvars>>

\* The guard of the sign branch, read from the shared buffer and the shared
\* last_prediction_time.
SignGuard(t) ==
    /\ threads[t].pc = "sign_guard"
    /\ threads' = [threads EXCEPT ![t].pc =
                      IF PredictionDue(sign_frame_buffer, threads[t].current_time,
                                       last_prediction_time)
                      THEN "sign_predict" ELSE "lip"]
    /\ UNCHANGED <<besideRace, calls, predicted_at, poolvars, fromvars, server, now, dpvars,
                   wsvars, received, sent, dsvars>>

\* prediction = self.predict_sign_language(...), then
\* self.last_prediction_time = current_time
SignPredict(t) ==
    /\ threads[t].pc = "sign_predict"
    /\ \E sp \in PredictSignLanguage(Len(sign_frame_buffer), sign_model) :
          /\ threads' = [threads EXCEPT ![t].pc = "lip", ![t].sign = sp]
          /\ last_prediction_time' =
                LastPredictionTime(sp # NoPrediction, threads[t].current_time,
                                   last_prediction_time)
    /\ predicted_at' = Append(predicted_at, now)
    /\ UNCHANGED <<besideRace, calls, sign_frame_buffer, lip_frame_buffer, sign_model, lip_model,
                   sign_pushes, lip_pushes,
                   poolvars, fromvars, server, now, wsvars, received, sent, dsvars>>

\* self.lip_frame_buffer.append(detection_data['lipLandmarks']), when the
\* lip branch is taken
LipAppend(t) ==
    /\ threads[t].pc = "lip"
    /\ IF LipAppends(threads[t].mode, threads[t].det)
       THEN /\ lip_frame_buffer' = DequeAppend(lip_frame_buffer, lip_pushes + 1)
            /\ lip_pushes' = lip_pushes + 1
            /\ threads' = [threads EXCEPT ![t].pc = "lip_guard"]
       ELSE /\ UNCHANGED <<lip_frame_buffer, lip_pushes>>
            /\ threads' = [threads EXCEPT ![t].pc = "return"]
    /\ UNCHANGED <<besideRace, calls, predicted_at, sign_frame_buffer, sign_pushes,
                   last_prediction_time, sign_model, lip_model,
                   poolvars, fromvars, server, now, wsvars, received, sent, dsvars>>

\* The guard of the lip branch.
LipGuard(t) ==
    /\ threads[t].pc = "lip_guard"
    /\ threads' = [threads EXCEPT ![t].pc =
                      IF PredictionDue(lip_frame_buffer, threads[t].current_time,
                                       last_prediction_time)
                      THEN "lip_predict" ELSE "return"]
    /\ UNCHANGED <<besideRace, calls, predicted_at, poolvars, fromvars, server, now, dpvars,
                   wsvars, received, sent, dsvars>>

\* lip_prediction = self.predict_lip_reading(...), then prediction =
\* lip_prediction and self.last_prediction_time = current_time
LipPredict(t) ==
    /\ threads[t].pc = "lip_predict"
    /\ \E lp \in PredictLipReading(Len(lip_frame_buffer), lip_model) :
          /\ threads' = [threads EXCEPT ![t].pc = "return", ![t].lip = lp]
          /\ last_prediction_time' =
                LastPredictionTime(lp # NoPrediction, threads[t].current_time,
                                   last_prediction_time)
    /\ predicted_at' = Append(predicted_at, now)
    /\ UNCHANGED <<besideRace, calls, sign_frame_buffer, lip_frame_buffer, sign_model, lip_model,
                   sign_pushes, lip_pushes,
                   poolvars, fromvars, server, now, wsvars, received, sent, dsvars>>

\* return detection_data, prediction
Return(t) ==
    /\ threads[t].pc = "return"
    /\ ret' = [detection |-> threads[t].det,
               prediction |-> IF threads[t].lip # NoPrediction
                              THEN threads[t].lip ELSE threads[t].sign]
    /\ threads' = [threads EXCEPT ![t] = IdleThread]
    /\ UNCHANGED <<besideRace, calls, predicted_at, poolvars, fromvars, server, now, dpvars,
                   connections, received, sent, dsvars>>

---------------------------------------------------------------------------
(* WebSocketServer *)

Msg(type, info) == [type |-> type, info |-> info]

\* A message of a client, as the handlers read it: data['type'],
\* data.get('frame'), data.get('mode'), data.get('command').
Message(type, frame, mode, command) ==
    [type |-> type, mode |-> mode, frame |-> frame, command |-> command]

NoMessage == Message("", <<>>, "", "")

\* The handler of connection c was given message m.
Receive(m) == received' = m

\* The handler of connection c wrote msgs with websocket.send.
Reply(c, msgs) == sent' = [to |-> c, msgs |-> msgs]

\* The confidence extract_detection_data reports.  The bounding boxes and
\* the confidence are computed inside the branch taken when the face is found.
DetectionConfidence(det) ==
    IF det.lipDetected
    THEN (IF det.handCount > 0 THEN 80 ELSE 70)
    ELSE 0

\* process_frame: the text handed to b64decode, after the data-URL prefix
\* is cut off with frame_data.split(',')[1] (an IndexError without a comma).
StripDataUrl(s) ==
    IF StartsWithDataImage(s)
    THEN (IF Len(SplitComma(s)) < 2
          THEN [ok |-> FALSE, text |-> <<>>]
          ELSE [ok |-> TRUE, text |-> SplitComma(s)[2]])
    ELSE [ok |-> TRUE, text |-> s]

\* process_frame: whether the try block that decodes the frame succeeds.
DecodesToImage(s) ==
    /\ StripDataUrl(s).ok
    /\ B64Decode(StripDataUrl(s).text).ok
    /\ ImDecodeOk(B64Decode(StripDataUrl(s).text).bytes)

\* process_frame: mode = data.get('mode', 'both'), 'both' when not valid.
ValidMode(m) == IF m \in {"sign", "lip", "both"} THEN m ELSE "both"

\* The translation sent whether or not the call returned a prediction.
FrameRepliesAlwaysTranslate(mode, r, audio) ==
    <<[type |-> "detection", detection |-> r.detection, mode |-> mode],
      [type |-> "translation", data |-> r.prediction, audio |-> audio],
      [type |-> "stats", hand_count |-> r.detection.handCount,
       lip_detected |-> r.detection.lipDetected,
       confidence |-> DetectionConfidence(r.detection)]>>

\* process_frame: the messages sent for a decoded frame; audio is whether
\* text_to_speech produced audio.
FrameReplies(mode, r, audio) ==
    <<[type |-> "detection", detection |-> r.detection, mode |-> mode]>>
    \o (IF r.prediction # NoPrediction
        THEN <<[type |-> "translation", data |-> r.prediction, audio |-> audio]>>
        ELSE <<>>)
    \o <<[type |-> "stats", hand_count |-> r.detection.handCount,
          lip_detected |-> r.detection.lipDetected,
          confidence |-> DetectionConfidence(r.detection)]>>

\* A handler that reads the next message while a frame of its connection
\* is still with the executor.
HandlerNeverWaits(c) == TRUE

\* handle_connection reads the next message only after
\* process_client_message returned for the one before (async for with an
\* await in its body): the handler of connection c takes a message when no
\* frame of c is with the executor.
HandlerFree(c) == \A j \in jobs : j.conn # c

\* handle_connection, up to the welcome message.
Connect(c) ==
    /\ server = "ws"
    /\ c \notin connections
    /\ connections' = connections \cup {c}
    /\ Receive(NoMessage)
    /\ Reply(c, <<Msg("welcome", "connected")>>)
    /\ ret' = NoRet
    /\ UNCHANGED <<extvars, poolvars, fromvars, server, now, dpvars, dsvars>>

\* handle_connection: the client closed the connection; the finally block.
Disconnect(c) ==
    /\ server = "ws"
    /\ c \in connections
    /\ HandlerFree(c)
    /\ connections' = connections \ {c}
    /\ Receive(NoMessage)
    /\ Reply(c, <<>>)
    /\ ret' = NoRet
    /\ UNCHANGED <<extvars, poolvars, fromvars, server, now, dpvars, dsvars>>

\* A handler that answers and changes nothing else.
Answer(c, m, msgs) ==
    /\ server = "ws"
    /\ c \in connections
    /\ HandlerFree(c)
    /\ Receive(m)
    /\ Reply(c, msgs)
    /\ ret' = NoRet
    /\ UNCHANGED <<extvars, poolvars, fromvars, server, now, dpvars, connections, dsvars>>

\* A handle_connection whose loop is left by the JSONDecodeError: the
\* finally block removes the connection.
InvalidJSONFatal(c) ==
    /\ server = "ws"
    /\ c \in connections
    /\ HandlerFree(c)
    /\ connections' = connections \ {c}
    /\ Receive(Message("invalid", <<>>, "", ""))
    /\ Reply(c, <<>>)
    /\ ret' = NoRet
    /\ UNCHANGED <<extvars, poolvars, fromvars, server, now, dpvars, dsvars>>

\* handle_connection: json.loads fails.
InvalidJSON(c) == Answer(c, Message("invalid", <<>>, "", ""), <<Msg("error", "invalid_json")>>)

\* handle_connection: json.loads gives a value that is not an object (a
\* list, a number, a string), data.get raises and the except Exception
\* branch answers.
NonObject(c) ==
    Answer(c, Message("nonobject", <<>>, "", ""), <<Msg("error", "processing_error")>>)

\* A ping answered twice.
PingTwice(c) ==
    Answer(c, Message("ping", <<>>, "", ""), <<Msg("pong", ""), Msg("pong", "")>>)

\* process_client_message, type ping
Ping(c) == Answer(c, Message("ping", <<>>, "", ""), <<Msg("pong", "")>>)

\* process_client_message, type handshake
Handshake(c) ==
    Answer(c, Message("handshake", <<>>, "", ""), <<Msg("handshake_ack", "handshake_received")>>)

\* process_client_message, type handshake_ack
HandshakeAck(c) ==
    Answer(c, Message("handshake_ack", <<>>, "", ""), <<Msg("status", "handshake_completed")>>)

\* process_client_message, any other type
UnknownType(c) ==
    Answer(c, Message("other", <<>>, "", ""), <<Msg("error", "unknown_message_type")>>)

\* health_check: every 30 s the health message is broadcast; this is one
\* send of broadcast, to connection c.  When the 30 s are over does not
\* depend on what the clients do, and a send needs no message of the client
\* and no free handler.
HealthSend(c) ==
    /\ server = "ws"
    /\ c \in connections
    /\ Receive(NoMessage)
    /\ Reply(c, <<Msg("health", "healthy")>>)
    /\ ret' = NoRet
    /\ UNCHANGED <<extvars, poolvars, fromvars, server, now, dpvars, connections, dsvars>>

\* change_mode
ChangeMode(c, m) ==
    Answer(c, Message("mode", <<>>, m, ""), <<Msg("mode_changed", ValidMode(m))>>)

Commands == {"start", "stop", "pause", "resume", "other"}

\* handle_control with a start command that makes the processor's state anew.
HandleControlReset(c, command) ==
    IF command = "start"
    THEN /\ server = "ws"
         /\ c \in connections
         /\ Receive(Message("control", <<>>, "", command))
         /\ Reply(c, <<Msg("control_response", "started")>>)
         /\ ret' = NoRet
         /\ sign_frame_buffer' = <<>>
         /\ lip_frame_buffer' = <<>>
         /\ last_prediction_time' = 0
         /\ sign_pushes' = 0
         /\ lip_pushes' = 0
         /\ sign_from' = <<>>
         /\ lip_from' = <<>>
         /\ UNCHANGED <<extvars, poolvars, server, now, sign_model, lip_model, connections, dsvars>>
    ELSE Answer(c, Message("control", <<>>, "", command),
                <<Msg("error", "unknown_command")>>)

\* handle_control
HandleControl(c, command) ==
    Answer(c, Message("control", <<>>, "", command),
           <<CASE command = "start" -> Msg("control_response", "started")
                    [] command = "stop" -> Msg("control_response", "stopped")
                    [] command = "pause" -> Msg("control_response", "paused")
                    [] command = "resume" -> Msg("control_response", "resumed")
                    [] OTHER -> Msg("error", "unknown_command")>>)

\* A frame message that carries a frame_id.
FrameMessage(p, m, fid) ==
    [type |-> "frame", mode |-> m, frame |-> p, command |-> "", frame_id |-> fid]

\* data.get('frame_id', 'unknown'); frame ids are numbers from 1, and 0
\* stands for 'unknown'.
FrameIdOf(msg) == IF "frame_id" \in DOMAIN msg THEN msg.frame_id ELSE 0

\* Replies that carry 'unknown' (0) as frame_id whatever the frame message said.
WithFrameIdUnknown(msgs, fid) ==
    [i \in 1..Len(msgs) |->
        IF msgs[i].type = "detection"
        THEN [type |-> "detection", detection |-> msgs[i].detection,
              mode |-> msgs[i].mode, frame_id |-> 0]
        ELSE IF msgs[i].type = "translation"
        THEN [type |-> "translation", data |-> msgs[i].data,
              audio |-> msgs[i].audio, frame_id |-> 0]
        ELSE msgs[i]]

\* process_frame: the detection and the translation message carry the
\* frame_id of the frame message; the stats message carries none.
WithFrameId(msgs, fid) ==
    [i \in 1..Len(msgs) |->
        IF msgs[i].type = "detection"
        THEN [type |-> "detection", detection |-> msgs[i].detection,
              mode |-> msgs[i].mode, frame_id |-> fid]
        ELSE IF msgs[i].type = "translation"
        THEN [type |-> "translation", data |-> msgs[i].data,
              audio |-> msgs[i].audio, frame_id |-> fid]
        ELSE msgs[i]]

\* A process_frame that accepts the frame, reports what was detected and
\* leaves the processor alone.
ProcessFrameIgnored(c, p, m) ==
    /\ server = "ws"
    /\ c \in connections
    /\ HandlerFree(c)
    /\ Receive(Message("frame", p, m, ""))
    /\ \E det \in Detections(ValidMode(m)) :
          /\ ret' = [detection |-> det, prediction |-> NoPrediction]
          /\ Reply(c, FrameReplies(ValidMode(m), ret', FALSE))
    /\ UNCHANGED <<extvars, poolvars, fromvars, server, now, dpvars, connections, dsvars>>

\* process_frame, for a message of type frame with payload p and mode m
ProcessFrame(c, p, m) ==
    /\ server = "ws"
    /\ c \in connections
    /\ HandlerFree(c)
    /\ Receive(Message("frame", p, m, ""))
    /\ UNCHANGED <<extvars, poolvars, server, now, connections, dsvars>>
    /\ IF p = <<>>
       THEN Reply(c, <<Msg("error", "no_frame_data")>>)
            /\ ret' = NoRet /\ UNCHANGED <<dpvars, fromvars>>
       ELSE IF StrLen(p) > MaxFrameSize
       THEN Reply(c, <<Msg("error", "frame_too_large")>>)
            /\ ret' = NoRet /\ UNCHANGED <<dpvars, fromvars>>
       ELSE IF ~DecodesToImage(p)
       THEN Reply(c, <<Msg("error", "frame_decoding_failed")>>)
            /\ ret' = NoRet /\ UNCHANGED <<dpvars, fromvars>>
       ELSE /\ \E det \in Detections(ValidMode(m)) :
                  ProcessFrameAndPredict(ValidMode(m), det)
            /\ CalledFor(c)
            /\ \E audio \in (IF ret'.prediction # NoPrediction
                               THEN BOOLEAN ELSE {FALSE}) :
                  Reply(c, WithFrameId(FrameReplies(ValidMode(m), ret', audio),
                                       FrameIdOf(Message("frame", p, m, ""))))

---------------------------------------------------------------------------
(* WebSocketServer: a frame on the worker pool *)

\* A frame of connection c with the executor: its arrival number, the
\* message it came in, the mode the call is made with, and the result once
\* the call returned.
Job(c, seq, msg, mode, done, r) ==
    [conn |-> c, seq |-> seq, msg |-> msg, mode |-> mode, done |-> done, ret |-> r]

\* process_frame up to run_in_executor: the frame decoded, the call of
\* process_frame_and_predict is handed to the executor and the handler
\* awaits it.  The client numbers its frames: the frame_id is the arrival
\* number (the server only copies the frame_id, so distinct ids are the
\* general case).
SubmitFrame(c, p, m) ==
    /\ server = "ws"
    /\ c \in connections
    /\ HandlerFree(c)
    /\ p # <<>> /\ StrLen(p) <= MaxFrameSize /\ DecodesToImage(p)
    /\ Receive(FrameMessage(p, m, arrivals + 1))
    /\ Reply(c, <<>>)
    /\ ret' = NoRet
    /\ arrivals' = arrivals + 1
    /\ jobs' = jobs \cup {Job(c, arrivals + 1, FrameMessage(p, m, arrivals + 1),
                              ValidMode(m), FALSE, NoRet)}
    /\ UNCHANGED <<extvars, server, now, dpvars, connections, dsvars, closed, fromvars>>

\* A thread of the ThreadPoolExecutor runs process_frame_and_predict for
\* job j.  The thread knows nothing of the connection.
RunJob(j) ==
    /\ server = "ws"
    /\ j \in jobs
    /\ ~j.done
    /\ \E det \in Detections(j.mode) : ProcessFrameAndPredict(j.mode, det)
    /\ CalledFor(j.conn)
    /\ jobs' = (jobs \ {j}) \cup {Job(j.conn, j.seq, j.msg, j.mode, TRUE, ret')}
    /\ Receive(NoMessage)
    /\ Reply(0, <<>>)
    /\ UNCHANGED <<extvars, server, now, connections, dsvars, arrivals, closed>>

\* process_frame after run_in_executor returned: the handler sends the
\* replies.  On a connection the peer closed, websocket.send raises
\* ConnectionClosed, in process_frame and again in each except branch that
\* tries to send an error, and the finally block of handle_connection
\* removes the connection.
ResumeFrame(j) ==
    /\ server = "ws"
    /\ j \in jobs
    /\ j.done
    /\ jobs' = jobs \ {j}
    /\ Receive(j.msg)
    /\ ret' = j.ret
    /\ IF j.conn \in closed
       THEN /\ Reply(j.conn, <<>>)
            /\ connections' = connections \ {j.conn}
            /\ closed' = closed \ {j.conn}
       ELSE /\ \E audio \in (IF j.ret.prediction # NoPrediction
                               THEN BOOLEAN ELSE {FALSE}) :
                  Reply(j.conn, WithFrameId(FrameReplies(j.mode, j.ret, audio),
                                            FrameIdOf(j.msg)))
            /\ UNCHANGED <<connections, closed>>
    /\ UNCHANGED <<extvars, server, now, dpvars, dsvars, arrivals, fromvars>>

\* The peer closes the connection while its handler awaits the executor.
\* (A handler waiting for a message leaves the loop at once: Disconnect.)
Close(c) ==
    /\ server = "ws"
    /\ c \in connections
    /\ c \notin closed
    /\ ~HandlerFree(c)
    /\ closed' = closed \cup {c}
    /\ Receive(NoMessage)
    /\ Reply(c, <<>>)
    /\ UNCHANGED <<extvars, server, now, dpvars, wsvars, dsvars, jobs, arrivals, fromvars>>

---------------------------------------------------------------------------
(* WebSocketServer.broadcast and health_check *)

NotBroadcasting == [pc |-> "idle", cur |-> 0, used |-> 0, start |-> {},
                    visited |-> {}, disconnected |-> {}]

\* One step of `for connection in self.connections` followed by the start
\* of `await connection.send(message)`.  The iterator of a set raises
\* RuntimeError when the set has another size than when the loop began;
\* otherwise it yields a connection not yet visited, or it is exhausted
\* (connections added meanwhile may or may not be yielded).  After the loop
\* the connections whose send failed are removed, and set.remove raises
\* KeyError for one that is no longer in the set.
BroadcastNext(b, disc) ==
    IF Cardinality(connections) # b.used
    THEN /\ health_check' = "RuntimeError"
         /\ broadcasting' = NotBroadcasting
         /\ UNCHANGED connections
    ELSE \/ \E c \in connections \ b.visited :
               /\ broadcasting' = [b EXCEPT !.cur = c, !.visited = @ \cup {c},
                                            !.disconnected = disc]
               /\ UNCHANGED <<connections, health_check>>
         \/ /\ (connections \ b.visited) \cap b.start = {}
            /\ broadcasting' = NotBroadcasting
            /\ IF disc \subseteq connections
               THEN /\ connections' = connections \ disc
                    /\ UNCHANGED health_check
               ELSE /\ health_check' = "KeyError"
                    /\ \E removed \in SUBSET (disc \cap connections) :
                          connections' = connections \ removed

\* health_check: the 30 s are over and broadcast is called; with
\* connections in the set its loop begins and awaits the first send.
BroadcastStart ==
    /\ server = "ws"
    /\ health_check = "running"
    /\ broadcasting.pc = "idle"
    /\ connections # {}
    /\ \E c \in connections :
          broadcasting' = [pc |-> "await", cur |-> c, used |-> Cardinality(connections),
                           start |-> connections, visited |-> {c}, disconnected |-> {}]
    /\ UNCHANGED <<health_check, besideBroadcast, poolvars, fromvars, server, now,
                   dpvars, wsvars, received, sent, dsvars>>

\* broadcast: the awaited send is over.  It failed if the peer had closed
\* the connection; then the loop goes on.
BroadcastResume ==
    /\ server = "ws"
    /\ broadcasting.pc = "await"
    /\ LET c == broadcasting.cur
           failed == c \in closed \/ c \notin connections
       IN /\ IF failed
             THEN UNCHANGED sent
             ELSE Reply(c, <<Msg("health", "healthy")>>)
          /\ BroadcastNext(broadcasting,
                           IF failed THEN broadcasting.disconnected \cup {c}
                                     ELSE broadcasting.disconnected)
    /\ Receive(NoMessage)
    /\ UNCHANGED <<besideBroadcast, poolvars, fromvars, server, now, dpvars, ret, dsvars>>

\* The peer closes connection c; its handler has not run since.
PeerCloses(c) ==
    /\ server = "ws"
    /\ c \in connections
    /\ c \notin closed
    /\ closed' = closed \cup {c}
    /\ Receive(NoMessage)
    /\ Reply(c, <<>>)
    /\ UNCHANGED <<extvars, server, now, dpvars, wsvars, dsvars, jobs, arrivals, fromvars>>

\* handle_connection of a closed connection: ConnectionClosed is caught and
\* the finally block removes the connection if it is still in the set.
Cleanup(c) ==
    /\ server = "ws"
    /\ c \in closed
    /\ HandlerFree(c)
    /\ closed' = closed \ {c}
    /\ connections' = IF c \in connections THEN connections \ {c} ELSE connections
    /\ Receive(NoMessage)
    /\ Reply(c, <<>>)
    /\ UNCHANGED <<extvars, server, now, dpvars, ret, dsvars, jobs, arrivals, fromvars>>

---------------------------------------------------------------------------
(* DetectionServer *)

\* RealTimeDetector.process_frame(frame, mode): what MediaPipe may report.
\* The mode is used as the client sent it.
DSDetections(m) ==
    { [handCount |-> h, lipDetected |-> l] :
        h \in (IF m \in {"sign", "both"} THEN 0..2 ELSE {0}),
        l \in (IF m \in {"lip", "both"} THEN BOOLEAN ELSE {FALSE}) }

\* DetectionServer.process_frame: whether the frame decodes; the text is
\* handed to b64decode as it came.
DSDecodesToImage(s) == B64Decode(s).ok /\ ImDecodeOk(B64Decode(s).bytes)

\* DetectionServer.process_frame: the messages sent for a decoded frame.
DSFrameReplies(m, det, elapsed) ==
    <<[type |-> "detection", detection |-> det, mode |-> m,
       translation |-> (det.handCount > 0 \/ det.lipDetected)]>>
    \o (IF elapsed > 1 THEN <<Msg("stats", "fps")>> ELSE <<>>)

\* DetectionServer.handle_connection, up to the welcome message.
DSConnect(c) ==
    /\ server = "ds"
    /\ c \notin ds_connections
    /\ ds_connections' = ds_connections \cup {c}
    /\ Receive(NoMessage)
    /\ Reply(c, <<Msg("welcome", "connected")>>)
    /\ UNCHANGED <<extvars, poolvars, fromvars, server, now, dpvars, wsvars, frame_counter, start_time>>

\* DetectionServer.handle_connection: the finally block.
DSDisconnect(c) ==
    /\ server = "ds"
    /\ c \in ds_connections
    /\ ds_connections' = ds_connections \ {c}
    /\ Receive(NoMessage)
    /\ Reply(c, <<>>)
    /\ UNCHANGED <<extvars, poolvars, fromvars, server, now, dpvars, wsvars, frame_counter, start_time>>

\* A DetectionServer handler that answers and changes nothing else.
DSAnswer(c, m, msgs) ==
    /\ server = "ds"
    /\ c \in ds_connections
    /\ Receive(m)
    /\ Reply(c, msgs)
    /\ UNCHANGED <<extvars, poolvars, fromvars, server, now, dpvars, wsvars, dsvars>>

\* DetectionServer.handle_connection: json.loads fails.
DSInvalidJSON(c) ==
    DSAnswer(c, Message("invalid", <<>>, "", ""), <<Msg("error", "invalid_json")>>)

\* DetectionServer.handle_connection: json.loads gives a value that is not
\* an object, data.get raises and the except Exception branch prints the
\* error; nothing is sent.
DSNonObject(c) == DSAnswer(c, Message("nonobject", <<>>, "", ""), <<>>)

\* DetectionServer.process_message, type ping
DSPing(c) == DSAnswer(c, Message("ping", <<>>, "", ""), <<Msg("pong", "")>>)

\* DetectionServer.process_message, a type other than ping, frame and mode
DSUnknownType(c) ==
    DSAnswer(c, Message("other", <<>>, "", ""), <<Msg("error", "unknown_message_type")>>)

\* DetectionServer.change_mode
DSChangeMode(c, m) ==
    DSAnswer(c, Message("mode", <<>>, m, ""), <<Msg("mode_changed", m)>>)

\* DetectionServer.process_frame, for a frame message with payload p and mode m
DSProcessFrame(c, p, m) ==
    /\ server = "ds"
    /\ c \in ds_connections
    /\ Receive(Message("frame", p, m, ""))
    /\ UNCHANGED <<extvars, poolvars, fromvars, server, now, dpvars, wsvars, ds_connections>>
    /\ IF p = <<>>
       THEN Reply(c, <<Msg("error", "no_frame_data")>>)
            /\ UNCHANGED <<frame_counter, start_time>>
       ELSE IF ~DSDecodesToImage(p)
       THEN Reply(c, <<Msg("error", "frame_decoding_failed")>>)
            /\ UNCHANGED <<frame_counter, start_time>>
       ELSE /\ frame_counter < MaxCounter
            /\ \E det \in DSDetections(m) :
                  Reply(c, DSFrameReplies(m, det, now - start_time))
            /\ frame_counter' = IF now - start_time > 1 THEN 0 ELSE frame_counter + 1
            /\ start_time' = IF now - start_time > 1 THEN now ELSE start_time

---------------------------------------------------------------------------
(* model_server.py: RealTimeProcessor behind the threaded Flask server *)

\* The request threads of app.run(threaded=True) that are looked at.
RTThreads == {1, 2}

IdleRequest == [pc |-> "idle", frames |-> <<>>]

\* deque(maxlen=FRAME_BUFFER_SIZE).append(e)
FrameBufferAppend(buf, e) ==
    IF Len(buf) >= FrameBufferSize THEN Append(Tail(buf), e) ELSE Append(buf, e)

\* process_frame on thread t calls processor.add_frame(frame):
\* self.frame_buffer.append(frame)
AddFrame(t) ==
    /\ requests[t].pc = "idle"
    /\ frame_buffer' = FrameBufferAppend(frame_buffer, rt_frames + 1)
    /\ rt_frames' = rt_frames + 1
    /\ requests' = [requests EXCEPT ![t].pc = "len"]
    /\ UNCHANGED <<processing_queue, results_queue, is_processing, workers,
                   enqueued, resulted, started, mainvars, besideRT>>

\* if len(self.frame_buffer) == FRAME_BUFFER_SIZE
TestLen(t) ==
    /\ requests[t].pc = "len"
    /\ requests' = [requests EXCEPT ![t].pc =
                       IF Len(frame_buffer) = FrameBufferSize THEN "list" ELSE "result"]
    /\ UNCHANGED <<frame_buffer, processing_queue, results_queue, is_processing,
                   workers, rt_frames, enqueued, resulted, started, mainvars, besideRT>>

\* frames = list(self.frame_buffer)
ListFrames(t) ==
    /\ requests[t].pc = "list"
    /\ requests' = [requests EXCEPT ![t].pc = "put", ![t].frames = frame_buffer]
    /\ UNCHANGED <<frame_buffer, processing_queue, results_queue, is_processing,
                   workers, rt_frames, enqueued, resulted, started, mainvars, besideRT>>

\* self.processing_queue.put(frames, block=False); queue.Full is caught and
\* the frames are dropped.  A batch on the queue is its number in enqueued.
PutFrames(t) ==
    /\ requests[t].pc = "put"
    /\ IF Len(processing_queue) < ProcessingQueueSize
       THEN /\ enqueued' = Append(enqueued, requests[t].frames)
            /\ processing_queue' = Append(processing_queue, Len(enqueued) + 1)
            /\ requests' = [requests EXCEPT ![t].pc = "clear"]
       ELSE /\ UNCHANGED <<enqueued, processing_queue>>
            /\ requests' = [requests EXCEPT ![t].pc = "result"]
    /\ UNCHANGED <<frame_buffer, results_queue, is_processing, workers, rt_frames,
                   resulted, started, mainvars, besideRT>>

\* self.frame_buffer.clear()
ClearBuffer(t) ==
    /\ requests[t].pc = "clear"
    /\ frame_buffer' = <<>>
    /\ requests' = [requests EXCEPT ![t].pc = "test"]
    /\ UNCHANGED <<processing_queue, results_queue, is_processing, workers,
                   rt_frames, enqueued, resulted, started, mainvars, besideRT>>

\* if not self.is_processing
TestProcessing(t) ==
    /\ requests[t].pc = "test"
    /\ requests' = [requests EXCEPT ![t].pc =
                       IF ~is_processing THEN "start" ELSE "result"]
    /\ UNCHANGED <<frame_buffer, processing_queue, results_queue, is_processing,
                   workers, rt_frames, enqueued, resulted, started, mainvars, besideRT>>

Worker(id, pc, batch) == [id |-> id, pc |-> pc, batch |-> batch]

\* self.start_processing(): is_processing = True and a process_worker
\* thread is started.
StartProcessing(t) ==
    /\ requests[t].pc = "start"
    /\ is_processing' = TRUE
    /\ workers' = workers \cup {Worker(started + 1, "while", 0)}
    /\ started' = started + 1
    /\ requests' = [requests EXCEPT ![t].pc = "result"]
    /\ UNCHANGED <<frame_buffer, processing_queue, results_queue, rt_frames,
                   enqueued, resulted, mainvars, besideRT>>

\* process_frame: result = processor.get_latest_result(), which takes the
\* head of results_queue if there is one; then the response is returned.
GetLatestResult(t) ==
    /\ requests[t].pc = "result"
    /\ results_queue' = IF results_queue # <<>> THEN Tail(results_queue)
                        ELSE results_queue
    /\ requests' = [requests EXCEPT ![t] = IdleRequest]
    /\ UNCHANGED <<frame_buffer, processing_queue, is_processing, workers,
                   rt_frames, enqueued, resulted, started, mainvars, besideRT>>

\* process_worker: while not self.processing_queue.empty()
WorkerWhile(w) ==
    /\ w \in workers /\ w.pc = "while"
    /\ workers' = (workers \ {w})
                  \cup {Worker(w.id, IF processing_queue # <<>> THEN "get" ELSE "exit", 0)}
    /\ UNCHANGED <<frame_buffer, processing_queue, results_queue, is_processing,
                   requests, rt_frames, enqueued, resulted, started, mainvars, besideRT>>

\* frames = self.processing_queue.get(timeout=1)
WorkerGet(w) ==
    /\ w \in workers /\ w.pc = "get"
    /\ processing_queue # <<>>
    /\ processing_queue' = Tail(processing_queue)
    /\ workers' = (workers \ {w}) \cup {Worker(w.id, "process", Head(processing_queue))}
    /\ UNCHANGED <<frame_buffer, results_queue, is_processing, requests, rt_frames,
                   enqueued, resulted, started, mainvars, besideRT>>

\* The get found the queue empty for one second: queue.Empty, break.
WorkerTimeout(w) ==
    /\ w \in workers /\ w.pc = "get"
    /\ processing_queue = <<>>
    /\ workers' = (workers \ {w}) \cup {Worker(w.id, "exit", 0)}
    /\ UNCHANGED <<frame_buffer, processing_queue, results_queue, is_processing,
                   requests, rt_frames, enqueued, resulted, started, mainvars, besideRT>>

\* result = self.process_frames(frames, 'both');
\* self.results_queue.put(result); self.processing_queue.task_done()
WorkerProcess(w) ==
    /\ w \in workers /\ w.pc = "process"
    /\ results_queue' = Append(results_queue, w.batch)
    /\ resulted' = resulted \cup {w.batch}
    /\ workers' = (workers \ {w}) \cup {Worker(w.id, "while", 0)}
    /\ UNCHANGED <<frame_buffer, processing_queue, is_processing, requests,
                   rt_frames, enqueued, started, mainvars, besideRT>>

\* self.is_processing = False, and the thread ends.
WorkerExit(w) ==
    /\ w \in workers /\ w.pc = "exit"
    /\ is_processing' = FALSE
    /\ workers' = workers \ {w}
    /\ UNCHANGED <<frame_buffer, processing_queue, results_queue, requests,
                   rt_frames, enqueued, resulted, started, mainvars, besideRT>>

---------------------------------------------------------------------------
(* optimization.py: PerformanceOptimizer *)

\* quality_level is a double.  The values that 1.0 leads to by adding and
\* subtracting 0.1 are the tenths from 0.5 to 1.0 and their neighbours one
\* rounding step away (0.7000000000000001, 0.7999999999999999, ...): a
\* value is its number of tenths and its distance from it in such steps.
Quality(tenths, ulps) == [tenths |-> tenths, ulps |-> ulps]

\* q > tenths/10 and q < tenths/10 on doubles
Above(q, tenths) == q.tenths > tenths \/ (q.tenths = tenths /\ q.ulps > 0)
Below(q, tenths) == q.tenths < tenths \/ (q.tenths = tenths /\ q.ulps < 0)

\* q - 0.1 and q + 0.1 in IEEE 754 double arithmetic, on the values above:
\* the result is rounded one step up when leaving the binade of 0.8 downwards
\* and one step down when entering it from 0.7.
MinusTenth(q) == Quality(q.tenths - 1, IF q.tenths = 8 THEN q.ulps + 1 ELSE q.ulps)
PlusTenth(q) == Quality(q.tenths + 1, IF q.tenths = 7 THEN q.ulps - 1 ELSE q.ulps)

\* max(0.5, self.quality_level - 0.1)
LowerQuality(q) == IF Below(MinusTenth(q), 5) THEN Quality(5, 0) ELSE MinusTenth(q)

\* min(1.0, self.quality_level + 0.1)
RaiseQuality(q) == IF Above(PlusTenth(q), 10) THEN Quality(10, 0) ELSE PlusTenth(q)

\* max(15, self.frame_rate - 5) and min(30, self.frame_rate + 5)
LowerFrameRate(fr) == IF fr - 5 < 15 THEN 15 ELSE fr - 5
RaiseFrameRate(fr) == IF fr + 5 > 30 THEN 30 ELSE fr + 5

\* deque(maxlen=100).append(latency)
HistoryAppend(h, latency) ==
    IF Len(h) >= HistorySize THEN Append(Tail(h), latency) ELSE Append(h, latency)

\* sum of the first n samples of h
RECURSIVE SumTo(_, _)
SumTo(h, n) == IF n = 0 THEN 0 ELSE h[n] + SumTo(h, n - 1)

SeqSum(h) == SumTo(h, Len(h))

\* avg_latency > self.target_latency * 1.2 and avg_latency < self.target_latency * 0.8,
\* with avg_latency = np.mean(self.latency_history)
LatencyHigh(h) == 10 * SeqSum(h) > 12 * TargetLatency * Len(h)
LatencyLow(h) == 10 * SeqSum(h) < 8 * TargetLatency * Len(h)

\* An adjust_parameters that lowers frame rate and quality together.
AdjustParametersBoth(h, fr, q) ==
    IF LatencyHigh(h)
    THEN <<LowerFrameRate(fr), IF Above(q, 5) THEN LowerQuality(q) ELSE q>>
    ELSE IF LatencyLow(h)
    THEN <<RaiseFrameRate(fr), IF Below(q, 10) THEN RaiseQuality(q) ELSE q>>
    ELSE <<fr, q>>

\* adjust_parameters: the new <<frame_rate, quality_level>>
AdjustParameters(h, fr, q) ==
    IF LatencyHigh(h)
    THEN IF fr > 15 THEN <<LowerFrameRate(fr), q>>
         ELSE IF Above(q, 5) THEN <<fr, LowerQuality(q)>>
         ELSE <<fr, q>>
    ELSE IF LatencyLow(h)
    THEN IF Below(q, 10) THEN <<fr, RaiseQuality(q)>>
         ELSE IF fr < 30 THEN <<RaiseFrameRate(fr), q>>
         ELSE <<fr, q>>
    ELSE <<fr, q>>

\* The guard of update_latency without the count of samples.
ShouldAdjustAlways(h, adjusting) == ~adjusting

\* update_latency: len(self.latency_history) >= 10 and not self.is_adjusting
ShouldAdjust(h, adjusting) == Len(h) >= MinSamples /\ ~adjusting

\* update_latency(latency); adjust_parameters sets is_adjusting and resets
\* it in its finally block.
UpdateLatency(latency) ==
    /\ server = "opt"
    /\ \E h \in {HistoryAppend(latency_history, latency)} :
          /\ latency_history' = h
          /\ \E new \in {IF ShouldAdjust(h, is_adjusting)
                          THEN AdjustParameters(h, frame_rate, quality_level)
                          ELSE <<frame_rate, quality_level>>} :
                /\ frame_rate' = new[1]
                /\ quality_level' = new[2]
    /\ is_adjusting' = FALSE
    /\ updates' = updates + 1
    /\ switches' = IF latency_history # <<>>
                      /\ latency # latency_history[Len(latency_history)]
                   THEN switches + 1 ELSE switches
    /\ UNCHANGED <<mainvars, besideOptimizer>>

---------------------------------------------------------------------------
(* Specifications *)

InitDP ==
    /\ now = PredictionInterval
    /\ sign_frame_buffer = <<>>
    /\ lip_frame_buffer = <<>>
    /\ last_prediction_time = 0
    /\ sign_model \in {"none", "bilstm", "cnn3d"}
    /\ lip_model \in BOOLEAN
    /\ sign_pushes = 0
    /\ lip_pushes = 0
    /\ threads = [t \in RaceThreads |-> IdleThread]
    /\ calls = 0
    /\ predicted_at = <<>>

\* RealTimeProcessor.__init__
InitRealTimeProcessor ==
    /\ frame_buffer = <<>>
    /\ processing_queue = <<>>
    /\ results_queue = <<>>
    /\ is_processing = FALSE
    /\ requests = [t \in RTThreads |-> IdleRequest]
    /\ workers = {}
    /\ rt_frames = 0
    /\ enqueued = <<>>
    /\ resulted = {}
    /\ started = 0

\* PerformanceOptimizer.__init__
InitOptimizer ==
    /\ latency_history = <<>>
    /\ frame_rate = 30
    /\ quality_level = Quality(10, 0)
    /\ is_adjusting = FALSE
    /\ updates = 0
    /\ switches = 0

\* WebSocketServer.start: no broadcast under way, health_check running
InitBroadcast ==
    /\ broadcasting = NotBroadcasting
    /\ health_check = "running"

Init ==
    /\ server \in {"ws", "ds"}
    /\ InitDP
    /\ InitRealTimeProcessor
    /\ InitBroadcast
    /\ InitOptimizer
    /\ connections = {}
    /\ received = NoMessage
    /\ ret = NoRet
    /\ sent = [to |-> 0, msgs |-> <<>>]
    /\ ds_connections = {}
    /\ frame_counter = 0
    /\ start_time = now
    /\ jobs = {}
    /\ arrivals = 0
    /\ closed = {}
    /\ sign_from = <<>>
    /\ lip_from = <<>>

\* A DetectionProcessor driven directly, frame after frame.
InitProcessor ==
    /\ server = "dp"
    /\ InitDP
    /\ InitRealTimeProcessor
    /\ InitBroadcast
    /\ InitOptimizer
    /\ connections = {}
    /\ received = NoMessage
    /\ ret = NoRet
    /\ sent = [to |-> 0, msgs |-> <<>>]
    /\ ds_connections = {}
    /\ frame_counter = 0
    /\ start_time = now
    /\ jobs = {}
    /\ arrivals = 0
    /\ closed = {}
    /\ sign_from = <<>>
    /\ lip_from = <<>>

NextDP == Tick \/ \E mode \in Modes : Call(mode)

SpecDP == InitProcessor /\ [][NextDP]_vars

Next ==
    \/ Tick
    \/ \E c \in Conns :
          \/ Connect(c)
          \/ Disconnect(c)
          \/ InvalidJSON(c)
          \/ NonObject(c)
          \/ HealthSend(c)
          \/ Ping(c)
          \/ Handshake(c)
          \/ HandshakeAck(c)
          \/ UnknownType(c)
          \/ \E m \in Modes : ChangeMode(c, m)
          \/ \E command \in Commands : HandleControl(c, command)
          \/ \E p \in Payloads, m \in Modes :
                /\ ProcessFrame(c, p, m)
                /\ sign_pushes' + lip_pushes' <= MaxFrames
    \/ \E c \in Conns :
          \/ DSConnect(c)
          \/ DSDisconnect(c)
          \/ DSInvalidJSON(c)
          \/ DSNonObject(c)
          \/ DSPing(c)
          \/ DSUnknownType(c)
          \/ \E m \in Modes : DSChangeMode(c, m)
          \/ \E p \in Payloads, m \in Modes : DSProcessFrame(c, p, m)

Spec == Init /\ [][Next]_vars

\* What a client that encodes captured frames sends: a base64 JPEG.
SessionPayloads == {<<"I">>}

\* websocket_server with a client that streams frames it captured, as
\* test_ws_client.py does, and sends control commands.
InitSession == Init /\ server = "ws"

NextSession ==
    \/ Tick
    \/ \E c \in Conns :
          \/ Connect(c)
          \/ Disconnect(c)
          \/ \E command \in Commands : HandleControl(c, command)
          \/ \E p \in SessionPayloads, m \in Modes :
                /\ ProcessFrame(c, p, m)
                /\ sign_pushes' + lip_pushes' <= MaxSessionFrames

SpecSession == InitSession /\ [][NextSession]_vars

\* The frames of two clients on the pool: while one thread is inside
\* process_frame_and_predict another one enters it.  The frames are of mode
\* both and show a hand and the lips; no model is loaded.
RaceModes == {"both"}
RaceDetections == {[handCount |-> 1, lipDetected |-> TRUE]}

InitRace == Init /\ server = "ws" /\ sign_model = "none" /\ ~lip_model

NextRace ==
    \/ Tick
    \/ \E t \in RaceThreads :
          \/ \E mode \in RaceModes, det \in RaceDetections :
                /\ calls < MaxRaceCalls
                /\ Begin(t, mode, det)
          \/ SignAppend(t)
          \/ SignGuard(t)
          \/ SignPredict(t)
          \/ LipAppend(t)
          \/ LipGuard(t)
          \/ LipPredict(t)
          \/ Return(t)

SpecRace == InitRace /\ [][NextRace]_vars

\* model_server.py: clients post frames to /process_frame, each request on
\* a thread of its own.
InitModelServer ==
    /\ server = "ms"
    /\ InitDP /\ sign_model = "none" /\ ~lip_model
    /\ InitRealTimeProcessor
    /\ InitBroadcast
    /\ InitOptimizer
    /\ connections = {}
    /\ received = NoMessage
    /\ ret = NoRet
    /\ sent = [to |-> 0, msgs |-> <<>>]
    /\ ds_connections = {}
    /\ frame_counter = 0
    /\ start_time = now
    /\ jobs = {}
    /\ arrivals = 0
    /\ closed = {}
    /\ sign_from = <<>>
    /\ lip_from = <<>>

NextModelServer ==
    \/ \E t \in RTThreads :
          \/ rt_frames < MaxRTFrames /\ AddFrame(t)
          \/ TestLen(t)
          \/ ListFrames(t)
          \/ PutFrames(t)
          \/ ClearBuffer(t)
          \/ TestProcessing(t)
          \/ StartProcessing(t)
          \/ GetLatestResult(t)
    \/ \E w \in workers : WorkerWhile(w)
    \/ \E w \in workers : WorkerGet(w)
    \/ \E w \in workers : WorkerTimeout(w)
    \/ \E w \in workers : WorkerProcess(w)
    \/ \E w \in workers : WorkerExit(w)

SpecModelServer == InitModelServer /\ [][NextModelServer]_vars

\* The same with the scheduling of the threads: a request that has called
\* add_frame and a process_worker that was started take their next step
\* sooner or later, and a get on an empty queue times out.  Nothing makes
\* a client send another frame.
FairModelServer ==
    /\ \A t \in RTThreads :
          /\ WF_vars(TestLen(t))
          /\ WF_vars(ListFrames(t))
          /\ WF_vars(PutFrames(t))
          /\ WF_vars(ClearBuffer(t))
          /\ WF_vars(TestProcessing(t))
          /\ WF_vars(StartProcessing(t))
          /\ WF_vars(GetLatestResult(t))
    /\ WF_vars(\E w \in workers : WorkerWhile(w))
    /\ WF_vars(\E w \in workers : WorkerGet(w))
    /\ WF_vars(\E w \in workers : WorkerTimeout(w))
    /\ WF_vars(\E w \in workers : WorkerProcess(w))
    /\ WF_vars(\E w \in workers : WorkerExit(w))

SpecModelServerFair == InitModelServer /\ [][NextModelServer]_vars /\ FairModelServer

\* websocket_server with clients that come and go while health_check
\* broadcasts.  A connection is a new websocket object: no number is used
\* anew while a broadcast that met it is under way.
BroadcastConns == {1, 2, 3}

InitBroadcasting ==
    Init /\ server = "ws" /\ sign_model = "none" /\ ~lip_model

NextBroadcast ==
    \/ BroadcastStart
    \/ BroadcastResume
    \/ \E c \in BroadcastConns :
          \/ /\ c \notin closed
             /\ c \notin broadcasting.visited
             /\ Connect(c)
          \/ c \notin closed /\ Disconnect(c)
          \/ PeerCloses(c)
          \/ Cleanup(c)
          \/ c \notin closed /\ Ping(c)

SpecBroadcast == InitBroadcasting /\ [][NextBroadcast]_vars

\* A PerformanceOptimizer that is told the latency of frame after frame.
\* The latencies, in milliseconds, are such that no average of up to 100 of
\* them equals 0.8 or 1.2 times the target, where the branch taken would
\* hinge on the rounding of np.mean.
Latencies == {61, 181}

InitOptimizing ==
    /\ server = "opt"
    /\ InitDP /\ sign_model = "none" /\ ~lip_model
    /\ InitRealTimeProcessor
    /\ InitBroadcast
    /\ InitOptimizer
    /\ connections = {}
    /\ received = NoMessage
    /\ ret = NoRet
    /\ sent = [to |-> 0, msgs |-> <<>>]
    /\ ds_connections = {}
    /\ frame_counter = 0
    /\ start_time = now
    /\ jobs = {}
    /\ arrivals = 0
    /\ closed = {}
    /\ sign_from = <<>>
    /\ lip_from = <<>>

NextOptimizer ==
    \E latency \in Latencies :
       /\ updates < MaxUpdates
       /\ IF latency_history = <<>> \/ switches < MaxSwitches
          THEN TRUE
          ELSE latency = latency_history[Len(latency_history)]
       /\ UpdateLatency(latency)

SpecOptimizer == InitOptimizing /\ [][NextOptimizer]_vars

\* Two clients at once.  Each sends frames (an image, or bytes that are no
\* image) and malformed messages; in websocket_server the frames go through
\* the worker pool.
PoolConns == {1, 2}
PoolPayloads == {<<"I">>, <<"Z">>}
PoolModes == {"sign", "lip"}

NextPool ==
    \/ \E c \in PoolConns :
          \/ Connect(c)
          \/ Disconnect(c)
          \/ Close(c)
          \/ InvalidJSON(c)
          \/ NonObject(c)
          \/ \E p \in PoolPayloads, m \in PoolModes :
                /\ ~DecodesToImage(p)
                /\ ProcessFrame(c, p, m)
          \/ \E p \in PoolPayloads, m \in PoolModes :
                /\ arrivals < MaxPoolFrames
                /\ SubmitFrame(c, p, m)
    \/ \E j \in jobs : RunJob(j)
    \/ \E j \in jobs : ResumeFrame(j)
    \/ \E c \in PoolConns :
          \/ DSConnect(c)
          \/ DSDisconnect(c)
          \/ DSInvalidJSON(c)
          \/ DSNonObject(c)
          \/ \E p \in PoolPayloads, m \in PoolModes : DSProcessFrame(c, p, m)

SpecPool == Init /\ [][NextPool]_vars

---------------------------------------------------------------------------
(* Properties of the DetectionProcessor windows *)

Min(a, b) == IF a < b THEN a ELSE b

\* The serial numbers of the last k of n appends, oldest first.
LastPushed(n, k) == [i \in 1..Min(n, k) |-> n - Min(n, k) + i]

\* C1: the sign window and the lip window never hold more than W = 30
\* entries, and each holds exactly the last (at most 30) entries appended
\* to it, in arrival order.
C1_WindowHoldsLastW ==
    /\ Len(sign_frame_buffer) <= W
    /\ Len(lip_frame_buffer) <= W
    /\ sign_frame_buffer = LastPushed(sign_pushes, W)
    /\ lip_frame_buffer = LastPushed(lip_pushes, W)

\* C1: more than W entries were appended to a window, so the oldest is gone.
C1_Evicted ==
    \/ sign_pushes > W /\ Len(sign_frame_buffer) = W /\ Head(sign_frame_buffer) > 1
    \/ lip_pushes > W /\ Len(lip_frame_buffer) = W /\ Head(lip_frame_buffer) > 1

\* The window a prediction was made from.
WindowOf(prediction) ==
    IF prediction.type = "sign" THEN sign_frame_buffer ELSE lip_frame_buffer

\* C2: a class label comes out of the classifier only for a window that
\* holds exactly W = 30 entries; no prediction is produced from a window
\* that holds fewer.
C2_OnlyFullWindow ==
    ret.prediction.text \in Labels => Len(WindowOf(ret.prediction)) = W

\* A step in which process_frame_and_predict runs (every step but a tick
\* of the clock, when a DetectionProcessor is driven alone); ret' is what
\* the call returns.
FrameCall == server = "dp" /\ now' = now

\* C3 as stated: every frame handed to process_frame_and_predict advances
\* a window by one entry, detection or no detection.
C3_EveryFramePushes ==
    [][FrameCall => \/ sign_pushes' = sign_pushes + 1
                    \/ lip_pushes' = lip_pushes + 1]_vars

\* C3 amended: a frame advances the sign window by one entry exactly when a
\* hand is detected in it (mode sign or both), and the lip window exactly
\* when lips are detected in it (mode lip or both); a frame without the
\* detection is skipped and leaves the window as it was.
C3_PushesOnlyOnDetection ==
    [][FrameCall =>
         /\ IF ret'.detection.handCount > 0
            THEN /\ sign_pushes' = sign_pushes + 1
                 /\ Len(sign_frame_buffer') = Min(Len(sign_frame_buffer) + 1, W)
                 /\ sign_frame_buffer'[Len(sign_frame_buffer')] = sign_pushes'
            ELSE UNCHANGED <<sign_frame_buffer, sign_pushes>>
         /\ IF ret'.detection.lipDetected
            THEN /\ lip_pushes' = lip_pushes + 1
                 /\ Len(lip_frame_buffer') = Min(Len(lip_frame_buffer) + 1, W)
                 /\ lip_frame_buffer'[Len(lip_frame_buffer')] = lip_pushes'
            ELSE UNCHANGED <<lip_frame_buffer, lip_pushes>>]_vars

\* C3: a frame without a hand and without lips was handled after entries
\* had been appended, and the windows still hold those entries.
C3_SkippedFrame ==
    /\ ret.detection.handCount = 0
    /\ ~ret.detection.lipDetected
    /\ sign_pushes > 0
    /\ lip_pushes > 0
    /\ Len(sign_frame_buffer) = sign_pushes
    /\ Len(lip_frame_buffer) = lip_pushes

---------------------------------------------------------------------------
(* Properties of the predictions reported to the client *)

Max(a, b) == IF a > b THEN a ELSE b

\* The predictions a handler's reply carries in translation messages.
TranslationsOf(s) ==
    { s.msgs[i].data : i \in { j \in 1..Len(s.msgs) : s.msgs[j].type = "translation" } }

Translations == TranslationsOf(sent)

\* A step in which a server handles a frame message.
FrameHandled == now' = now /\ received'.type = "frame"

\* A step that handles a frame in which a hand or lips were detected.
FramePushed ==
    FrameHandled /\ sign_pushes' + lip_pushes' > sign_pushes + lip_pushes

\* C4 as stated, its confidence condition: a label is reported only with a
\* confidence above the threshold of its mode, 0.85 for sign and 0.7 for
\* lip.
C4_FiresAboveThreshold ==
    \A t \in Translations :
       t.text \in Labels =>
          t.confidence > (IF t.type = "sign" THEN 85 ELSE 70)

\* C4 amended: a prediction is reported only if a hand (sign) or lips (lip)
\* were detected in the frame, the window of that type holds at least 10
\* entries with the frame, and at least 1.0 s has passed since
\* last_prediction_time, which the prediction sets to the current time;
\* no vote, confidence threshold, last label or cooldown counter is tested.
C4_FiresOnlyWhenDue ==
    [][FrameHandled =>
         \A t \in TranslationsOf(sent') :
            /\ t = ret'.prediction
            /\ now - last_prediction_time >= PredictionInterval
            /\ last_prediction_time' = now
            /\ IF t.type = "sign"
               THEN /\ ret'.detection.handCount > 0
                    /\ Len(sign_frame_buffer') >= MinFrames
               ELSE /\ ret'.detection.lipDetected
                    /\ Len(lip_frame_buffer') >= MinFrames]_vars

\* C4: a prediction of confidence 0.1 was reported.
C4_LowConfidenceReported ==
    \E t \in Translations : t.confidence = 10 /\ t.type = "sign"

\* C5 as stated: a label just reported is not reported again by the next
\* frame.
C5_NotAgainOnNextFrame ==
    [][FramePushed =>
         \A t \in Translations : \A u \in TranslationsOf(sent') :
            t.text \in Labels => u.text # t.text]_vars

\* C5 amended: a frame with a detection reports a prediction exactly when
\* its window holds at least 10 entries and at least 1.0 s has passed since
\* the last prediction, whatever the label: a held label is reported once
\* per interval of 1.0 s and not by the frames in between.
C5_OncePerInterval ==
    [][FramePushed =>
         (TranslationsOf(sent') # {}
            <=> /\ now - last_prediction_time >= PredictionInterval
                /\ \/ /\ sign_pushes' > sign_pushes
                      /\ Len(sign_frame_buffer') >= MinFrames
                   \/ /\ lip_pushes' > lip_pushes
                      /\ Len(lip_frame_buffer') >= MinFrames)]_vars

\* C5: label A was reported by the eleventh frame of a hand, the frame
\* after the first one that reported a prediction and more than 1.0 s after
\* the start.
C5_ReportedAgain ==
    /\ sign_pushes = MinFrames + 1
    /\ lip_pushes = 0
    /\ last_prediction_time = now
    /\ now > PredictionInterval
    /\ \E t \in Translations : t.text = "A"

\* The time a prediction still has to wait for.
Cooldown == Max(last_prediction_time + PredictionInterval - now, 0)

\* C6 as stated, its decrement: every frame processed while the cooldown
\* is running brings it down, whether or not the frame fires.
C6_CooldownCountsFrames ==
    [][FrameCall /\ Cooldown > 0 => Cooldown' < Cooldown]_vars

\* C6 amended: there is no cooldown counter; a prediction is made only when
\* the wait is 0, it sets last_prediction_time to the current time, which
\* makes the wait 1.0 s, a frame that predicts nothing leaves
\* last_prediction_time unchanged, the wait goes down with the clock and
\* last_prediction_time is never in the future.
C6_CooldownIsTime ==
    [][/\ FrameCall =>
            IF ret'.prediction # NoPrediction
            THEN /\ Cooldown = 0
                 /\ last_prediction_time' = now
                 /\ Cooldown' = PredictionInterval
            ELSE last_prediction_time' = last_prediction_time
       /\ now' = now + 1 => Cooldown' = Max(Cooldown - 1, 0)
       /\ last_prediction_time' <= now']_vars

\* C6: a frame was handled during the wait and the wait is what it was.
C6_FrameDuringCooldown ==
    /\ server = "dp"
    /\ Cooldown = PredictionInterval
    /\ ret.prediction = NoPrediction
    /\ ret.detection.handCount > 0
    /\ sign_pushes > MinFrames

\* C7 as stated: the first frame handled after a word was reported, 2.0 s
\* or more later and with no hand or lips in it, makes the server send the
\* sentence.
C7_IdleFlush ==
    [][(/\ \E t \in Translations : t.text \in Labels
        /\ now - last_prediction_time >= 2
        /\ FrameHandled
        /\ ret'.detection.handCount = 0
        /\ ~ret'.detection.lipDetected)
       => TranslationsOf(sent') # {}]_vars

\* C7 amended: no words are accumulated and nothing is flushed: a prediction
\* is sent on its own in the reply to the frame that produced it, a frame
\* in which a hand or lips were detected, and a frame without them sends no
\* translation, however long nothing was detected.
C7_NoFlush ==
    received.type = "frame" =>
       /\ Translations \subseteq {ret.prediction} \ {NoPrediction}
       /\ Translations # {} => ret.detection.handCount > 0 \/ ret.detection.lipDetected
       /\ Len(sent.msgs) = IF Translations # {} THEN 3 ELSE 2

\* C7: a word was reported, 2.0 s later a frame without hand or lips was
\* handled, and no translation was sent.
C7_IdleNothingSent ==
    /\ received.type = "frame"
    /\ ret.detection.handCount = 0
    /\ ~ret.detection.lipDetected
    /\ last_prediction_time >= PredictionInterval
    /\ now - last_prediction_time >= 2
    /\ Translations = {}

\* The last message handled is the control command start.
StartHandled(m) == m.type = "control" /\ m.command = "start"

\* C8 as stated: after a start command the windows are empty and
\* last_prediction_time has its initial value.
C8_StartResets ==
    StartHandled(received) =>
       /\ sign_frame_buffer = <<>>
       /\ lip_frame_buffer = <<>>
       /\ last_prediction_time = 0

\* C8 amended: a start command is answered with a control_response of
\* status started and leaves the windows and last_prediction_time as they
\* were.
C8_StartChangesNothing ==
    [][now' = now /\ StartHandled(received') =>
         /\ sent'.msgs = <<Msg("control_response", "started")>>
         /\ connections' = connections
         /\ UNCHANGED <<sign_frame_buffer, lip_frame_buffer, last_prediction_time>>]_vars

\* C8: a start command was answered while the sign window held entries and
\* a prediction had been made.
C8_StartedWithHistory ==
    /\ StartHandled(received)
    /\ Len(sign_frame_buffer) >= MinFrames
    /\ last_prediction_time > 0

---------------------------------------------------------------------------
(* Properties of the frames the servers reject *)

\* The handler answered with one error message and changed nothing else.
RejectedWithError ==
    /\ Len(sent'.msgs) = 1
    /\ sent'.msgs[1].type = "error"
    /\ connections' = connections
    /\ ds_connections' = ds_connections
    /\ UNCHANGED <<dpvars, frame_counter, start_time>>

\* C9: a frame message whose payload is longer than 1 MiB is answered with
\* an error message, changes no window, no prediction state and no counter,
\* and leaves the connection open, in either server.
C9_OversizeRejected ==
    [][FrameHandled /\ StrLen(received'.frame) > MaxFrameSize
          => RejectedWithError]_vars

\* The text left for the decoder once a data-URL prefix is cut off.
Body(p) == IF StripDataUrl(p).ok THEN StripDataUrl(p).text ELSE p

\* C10 as stated: a frame message whose payload is not valid base64, or
\* does not decode to an image, is answered with an error message and
\* changes nothing, and the connection stays open.
C10_InvalidRejected ==
    [][(/\ FrameHandled
        /\ \/ ~StrictBase64(Body(received'.frame))
           \/ ~ImDecodeOk(Body(received'.frame)))
          => RejectedWithError]_vars

\* The text fails in the decoding the servers do: its characters of the
\* base64 alphabet do not come in groups of four, or they do not encode an
\* image file.
Undecodable(text) ==
    \/ Cardinality({i \in 1..Len(text) : text[i] = "t"}) % 4 # 0
    \/ SelectSeq(text, InAlphabet) = <<>>
    \/ Head(SelectSeq(text, InAlphabet)) \notin {"I", "H"}

\* C10 amended: a frame message whose payload fails in the servers' lenient
\* decoding (base64.b64decode drops the characters outside the alphabet and
\* raises only when the rest does not come in groups of four), or whose
\* decoded bytes are no image, or (websocket_server) that starts with
\* data:image and has no comma, is answered with an error message and
\* changes nothing, and the connection stays open; a payload with stray
\* characters outside the alphabet around a base64 image is processed.
C10_UndecodableRejected ==
    [][(/\ FrameHandled
        /\ IF server = "ws"
           THEN \/ ~StripDataUrl(received'.frame).ok
                \/ Undecodable(Body(received'.frame))
           ELSE Undecodable(received'.frame))
          => RejectedWithError]_vars

\* C10: websocket_server answered a frame that is no base64 of an image
\* with an error while the sign window held entries, and the client is
\* still connected.
C10_DecodingErrorSent ==
    /\ server = "ws"
    /\ received.type = "frame"
    /\ received.frame = <<"Z">>
    /\ sent.msgs = <<Msg("error", "frame_decoding_failed")>>
    /\ sent.to \in connections
    /\ sign_pushes > 0

---------------------------------------------------------------------------
(* Protocol errors and failures *)

\* The last step handled a message of type t.
Handled(t) == now' = now /\ received'.type = t

\* C11: a message that is not valid JSON, or that carries none of the known
\* message types (an unknown type, or a JSON value that is not an object and
\* so has no type at all), is answered with exactly one error message and
\* the connection stays open.
C11_ProtocolErrorAnswered ==
    [][Handled("invalid") \/ Handled("other") \/ Handled("nonobject")
       => /\ Len(sent'.msgs) = 1
          /\ sent'.msgs[1].type = "error"
          /\ connections' = connections
          /\ ds_connections' = ds_connections]_vars

\* The last step handled a message that made the handler fail: text that
\* is no JSON, JSON that is no object, or a frame answered with an error.
Failed ==
    \/ Handled("invalid")
    \/ Handled("nonobject")
    \/ Handled("frame") /\ sent'.msgs # <<>> /\ sent'.msgs[1].type = "error"

\* C12: a failure while handling one message is isolated to that message:
\* the connection stays in the server's connection set with its handler
\* ready for the next message, no other connection, no frame with the
\* worker pool and no window or prediction state is touched, and a client
\* that is not connected can still connect.
C12_FailureIsolated ==
    /\ [][Failed
          => /\ sent'.to \in connections' \cup ds_connections'
             /\ \A j \in jobs' : j.conn # sent'.to
             /\ UNCHANGED <<connections, ds_connections, dpvars, fromvars,
                            poolvars, frame_counter, start_time>>]_vars
    /\ [](\A c \in PoolConns :
            /\ (server = "ws" /\ c \notin connections => ENABLED Connect(c))
            /\ (server = "ds" /\ c \notin ds_connections => ENABLED DSConnect(c)))

\* C12: the handler of connection 1 failed on a message while connection 2
\* is open with a frame on the worker pool.
C12_FailedBesideJob ==
    /\ received.type \in {"invalid", "nonobject", "frame"}
    /\ sent.to = 1
    /\ sent.msgs # <<>>
    /\ sent.msgs[1].type = "error"
    /\ {1, 2} \subseteq connections
    /\ \E j \in jobs : j.conn = 2 /\ ~j.done

\* The last step took a connection out of a server's connection set.
Disconnected ==
    \/ connections' # connections /\ connections' \subseteq connections
    \/ ds_connections' # ds_connections /\ ds_connections' \subseteq ds_connections

\* The entries of windows that came from connection c, sfrom and lfrom
\* telling where the entries of the sign and the lip window came from.
EntriesFrom(c, sfrom, lfrom) ==
    {i \in DOMAIN sfrom : sfrom[i] = c} \cup {i \in DOMAIN lfrom : lfrom[i] = c}

\* C13: when a client disconnects, the connection is removed from the
\* server's connection set, no error message is produced for the
\* disconnect, and the state held for the connection is released: the
\* windows hold nothing of that connection any more.
C13_DisconnectClears ==
    [][Disconnected
       => /\ sent'.to \notin connections' \cup ds_connections'
          /\ sent'.msgs = <<>>
          /\ EntriesFrom(sent'.to, sign_from', lip_from') = {}]_vars

---------------------------------------------------------------------------
(* Frames on the worker pool *)

\* The last step ran process_frame_and_predict for job j.
Ran(j) ==
    /\ ~j.done
    /\ j \notin jobs'
    /\ Job(j.conn, j.seq, j.msg, j.mode, TRUE, ret') \in jobs'

\* C14: for each connection, the frames are pushed into the windows in the
\* order they arrived on that connection: when process_frame_and_predict
\* runs for a frame, no frame that arrived earlier on the same connection is
\* still waiting for its run, whatever the order in which the worker pool
\* runs the frames of different connections.
C14_PushedInArrivalOrder ==
    [][\A j \in jobs :
          Ran(j) => \A k \in jobs : k.conn = j.conn /\ ~k.done => k.seq >= j.seq]_vars

\* C14: frames of two connections are with the worker pool at once, and the
\* one that arrived later has been run, and pushed, first.
C14_LaterFrameRanFirst ==
    \E j, k \in jobs :
        /\ j.conn # k.conn
        /\ j.seq < k.seq
        /\ ~j.done
        /\ k.done
        /\ EntriesFrom(k.conn, sign_from, lip_from) # {}

\* C15: the window and prediction state a connection works with is changed
\* only by that connection's own frames: the windows a connection's frames
\* are pushed into, and its predictions are made from, hold entries of that
\* connection only.
C15_OwnFramesOnly ==
    \A c \in connections :
        /\ \A i \in DOMAIN sign_from : sign_from[i] = c
        /\ \A i \in DOMAIN lip_from : lip_from[i] = c

\* C16: a frame whose connection closed while it was with the worker pool
\* is cancelled or ignored: running it changes no window and no prediction
\* state, and no response is sent for it.
C16_ClosedFrameIgnored ==
    [][\A j \in jobs :
          j.conn \in closed
          => /\ Ran(j) => UNCHANGED <<sign_frame_buffer, lip_frame_buffer,
                                       last_prediction_time>>
             /\ j \notin jobs' /\ j.done => sent'.msgs = <<>>]_vars

---------------------------------------------------------------------------
(* Sessions *)

\* By the session states IDLE and ACTIVE, the connection that was served
\* last is IDLE: it has just been welcomed, or its last message was a stop
\* command.
Idle ==
    \/ sent.msgs = <<Msg("welcome", "connected")>>
    \/ received.type = "control" /\ received.command = "stop"

\* C17 as stated: a frame received while the session is IDLE is accepted
\* without an error, leaves the windows and the prediction state unchanged
\* and produces no translation.
C17_IdleFrameIgnored ==
    [][Idle /\ FrameHandled
       => /\ sent'.msgs[1].type # "error"
          /\ UNCHANGED <<sign_frame_buffer, lip_frame_buffer, last_prediction_time>>
          /\ TranslationsOf(sent') = {}]_vars

\* C17 amended: the server keeps no IDLE or ACTIVE state.  A frame received
\* right after the welcome or after a stop command is processed as any
\* frame: it is accepted without an error, it is appended to the sign window
\* if a hand was detected and to the lip window if lips were, and a
\* prediction made from it is sent as a translation.
C17_IdleFrameProcessed ==
    [][Idle /\ FrameHandled
       => /\ sent'.msgs[1].type = "detection"
          /\ sign_pushes' = sign_pushes + (IF ret'.detection.handCount > 0 THEN 1 ELSE 0)
          /\ lip_pushes' = lip_pushes + (IF ret'.detection.lipDetected THEN 1 ELSE 0)
          /\ Len(sign_frame_buffer') = Min(sign_pushes', W)
          /\ Len(lip_frame_buffer') = Min(lip_pushes', W)
          /\ ret'.prediction # NoPrediction
             => /\ TranslationsOf(sent') = {ret'.prediction}
                /\ last_prediction_time' = now]_vars

\* C17: a stop command was the last message handled, and the frame that
\* comes next can be appended to the sign window and bring a translation.
C17_TranslationAfterStop ==
    /\ received.type = "control"
    /\ received.command = "stop"
    /\ sent.to \in connections
    /\ Len(sign_frame_buffer) >= MinFrames - 1
    /\ ENABLED (/\ \E p \in SessionPayloads, m \in Modes : ProcessFrame(sent.to, p, m)
                /\ sign_pushes' = sign_pushes + 1
                /\ TranslationsOf(sent') # {})

---------------------------------------------------------------------------
(* Missing models *)

\* The types of the messages in a reply.
TypesOf(msgs) == [i \in 1..Len(msgs) |-> msgs[i].type]

\* The frame handled in the last step was appended to a window for which a
\* prediction was due.
Due ==
    \/ /\ sign_pushes' = sign_pushes + 1
       /\ PredictionDue(sign_frame_buffer', now, last_prediction_time)
    \/ /\ lip_pushes' = lip_pushes + 1
       /\ PredictionDue(lip_frame_buffer', now, last_prediction_time)

\* C18: when no classifier model is loaded, every valid frame is still
\* processed without an error response or a disconnect, and the messages
\* emitted have the shapes they have with a trained model: a detection,
\* then, when a prediction is due, a translation whose data has a text, a
\* confidence and a type, then the stats.
C18_NoModelSameShapes ==
    [][sign_model = "none" /\ ~lip_model /\ FrameHandled
       => /\ connections' = connections
          /\ TypesOf(sent'.msgs) = IF Due THEN <<"detection", "translation", "stats">>
                                          ELSE <<"detection", "stats">>
          /\ \A t \in TranslationsOf(sent') :
                /\ DOMAIN t = {"text", "confidence", "type"}
                /\ t.confidence \in 1..100
                /\ t.type \in {"sign", "lip"}]_vars

\* C18: without a model, a frame was answered with a translation that tells
\* the model is unavailable.
C18_TranslationWithoutModel ==
    /\ sign_model = "none"
    /\ ~lip_model
    /\ received.type = "frame"
    /\ sent.to \in connections
    /\ \E t \in Translations : t.text = "model_unavailable"

---------------------------------------------------------------------------
(* Data URLs *)

\* Whether the server at hand processes payload p as a frame rather than
\* answering it with an error.
Accepted(p) ==
    /\ p # <<>>
    /\ IF server = "ws"
       THEN StrLen(p) <= MaxFrameSize /\ DecodesToImage(p)
       ELSE DSDecodesToImage(p)

\* C19: a frame payload with a data-URL header (data:image/...;base64,) is
\* handled exactly like the base64 payload that follows the header: it is
\* answered with an error if and only if the payload without the header is,
\* and otherwise it is processed as a frame.
C19_HeaderMakesNoDifference ==
    [][/\ FrameHandled
       /\ StartsWithDataImage(received'.frame)
       /\ Len(SplitComma(received'.frame)) >= 2
       => (sent'.msgs[1].type = "error"
             <=> ~Accepted(SplitComma(received'.frame)[2]))]_vars

---------------------------------------------------------------------------
(* Requests and replies *)

Answered(j) == j.done /\ j \notin jobs' /\ j.conn \notin closed

\* C22: for every frame that decodes, process_frame sends one detection
\* message, then at most one translation message, then one stats message,
\* the detection and the translation carrying the frame_id of that frame;
\* and when the replies to a frame are sent, no frame that arrived earlier
\* on the same connection is still unanswered.
C22_RepliesInOrder ==
    [][\A j \in jobs :
          Answered(j)
          => /\ sent'.to = j.conn
             /\ TypesOf(sent'.msgs) \in {<<"detection", "stats">>,
                                          <<"detection", "translation", "stats">>}
             /\ \A i \in 1..(Len(sent'.msgs) - 1) : sent'.msgs[i].frame_id = j.seq
             /\ \A k \in jobs : k.conn = j.conn => k.seq >= j.seq]_vars

\* C22: the replies to the second frame were sent while the frame that
\* arrived first, on the other connection, is still with the worker pool.
C22_SecondFrameAnsweredFirst ==
    /\ received.type = "frame"
    /\ FrameIdOf(received) = 2
    /\ Len(sent.msgs) >= 2
    /\ sent.msgs[1].type = "detection"
    /\ sent.msgs[1].frame_id = 2
    /\ \E j \in jobs : j.seq = 1 /\ j.conn # sent.to

\* C23: any two predictions the shared DetectionProcessor produces are at
\* least prediction_interval apart, whatever the interleaving of the frames
\* that run on the pool.
C23_PredictionsApart ==
    \A i, j \in 1..Len(predicted_at) :
       i < j => predicted_at[j] - predicted_at[i] >= PredictionInterval

\* C24: in mode both one frame yields at most one prediction: when the
\* sign prediction fired on a frame the lip prediction does not fire on it.
C24_SignExcludesLip ==
    \A t \in RaceThreads :
       threads[t].mode = "both" /\ threads[t].sign # NoPrediction
       => threads[t].lip = NoPrediction

\* The frames of two batches, as sets.
FramesOf(b) == { enqueued[b][i] : i \in 1..Len(enqueued[b]) }

\* C25: every frame given to add_frame belongs to at most one enqueued
\* batch, for every interleaving of concurrent add_frame calls.
C25_FrameInOneBatch ==
    \A a, b \in 1..Len(enqueued) : a # b => FramesOf(a) \cap FramesOf(b) = {}

\* C27: at most one process_worker thread runs at any time, and
\* is_processing is True exactly while one runs.
C27_OneWorker ==
    /\ Cardinality(workers) <= 1
    /\ is_processing <=> workers # {}

\* C26: every batch put on the processing queue is eventually taken by a
\* worker and its result put on the results queue, without any further
\* frame having to arrive: time and again every batch enqueued so far has
\* its result.
C26_EveryBatchProcessed ==
    []<>(\A b \in 1..Len(enqueued) : b \in resulted)

\* C28: broadcast completes without raising even when a connection is
\* opened or closed while it awaits a send, so the health_check loop keeps
\* running for the server's lifetime.
C28_HealthCheckKeepsRunning == health_check = "running"

\* C29: after any sequence of update_latency calls frame_rate is one of 15,
\* 20, 25, 30 and quality_level lies between 0.5 and 1.0 inclusive; nothing
\* is adjusted before 10 samples were recorded, and the latency history
\* never holds more than 100 samples.
C29_OptimizerInRange ==
    /\ frame_rate \in {15, 20, 25, 30}
    /\ ~Below(quality_level, 5) /\ ~Above(quality_level, 10)
    /\ Len(latency_history) <= HistorySize
    /\ updates < MinSamples => frame_rate = 30 /\ quality_level = Quality(10, 0)

\* Lowest settings reached with a full history that has evicted samples.
C29_FloorWithFullHistory ==
    /\ updates > HistorySize /\ Len(latency_history) = HistorySize
    /\ frame_rate = 15 /\ quality_level = Quality(5, 0)

\* C30: one adjustment changes at most one of frame_rate and quality_level,
\* by at most one step, in a fixed order: on high latency quality_level is
\* lowered only when frame_rate is at its floor of 15, on low latency
\* frame_rate is raised only when quality_level is back at 1.0, and with
\* the average between 0.8 and 1.2 times the target neither changes.
C30_OneStepInOrder ==
    [][LET sum == SeqSum(latency_history')
           high == 10 * sum > 12 * TargetLatency * Len(latency_history')
           low == 10 * sum < 8 * TargetLatency * Len(latency_history')
           lowered == quality_level'.tenths < quality_level.tenths
                      \/ (quality_level'.tenths = quality_level.tenths
                          /\ quality_level'.ulps < quality_level.ulps)
           raised == quality_level' # quality_level /\ ~lowered
       IN /\ ~(frame_rate' # frame_rate /\ quality_level' # quality_level)
          /\ frame_rate' - frame_rate \in {-5, 0, 5}
          /\ quality_level'.tenths - quality_level.tenths \in {-1, 0, 1}
          /\ frame_rate' < frame_rate => high
          /\ lowered => high /\ frame_rate = 15
          /\ raised => low
          /\ frame_rate' > frame_rate => low /\ quality_level = Quality(10, 0)
          /\ ~high /\ ~low => frame_rate' = frame_rate /\ quality_level' = quality_level]_vars

\* The frame rate is at its floor and the quality was lowered one step.
C30_QualityLoweredAtFloor ==
    /\ updates = MinSamples + 3
    /\ frame_rate = 15 /\ quality_level = Quality(9, 0)

=============================================================================
